---- MODULE Spec2Model ----
(***************************************************************************)
(* Model of src-tauri/src/main.rs: the desktop-automation commands of the  *)
(* Tauri host (input injection through enigo, the main/bubble window       *)
(* commands).                                                              *)
(*                                                                         *)
(* Strings are sequences of characters.  An ASCII character is written as  *)
(* itself ("a"); a non-ASCII character is written by its code point        *)
(* ("U+00E9"), so that str::len (a byte count) and str::to_lowercase are   *)
(* computed as Rust computes them.                                         *)
(***************************************************************************)
EXTENDS Integers, Sequences, FiniteSets, TLC

VARIABLES
    \* ---- the input injector (enigo / the OS input stream) ----
    ilog,           \* injector calls issued so far: [who, call, arg]
    down,           \* keys the OS currently sees as held down
    releaseOnDrop,  \* Settings::release_keys_when_dropped of the linked enigo
    pointer,        \* the pointer position <<x, y>>
    \* ---- one keyboard_shortcut invocation per caller ----
    pc,             \* caller -> "idle" | "press" | "release" | "done"
    keys,           \* caller -> the Vec<String> it was invoked with
    idx,            \* caller -> position of the running loop in keys
    eheld,          \* caller -> keys its own Enigo instance holds
    result,         \* caller -> the Result the command returned
    \* ---- the last single-call input command (mouse_*, keyboard_press) ----
    last,           \* [op, arg, created, calls, result, pre, moved]
    \* ---- the windowing host ----
    exists,         \* window label -> whether get_webview_window finds it
    visible,        \* window label -> whether the window is shown
    focused,        \* label of the focused window, or "none"
    whist           \* the window commands run so far, oldest first

vars == <<ilog, down, releaseOnDrop, pointer, pc, keys, idx, eheld, result,
          last, exists, visible, focused, whist>>

injVars == <<ilog, down, releaseOnDrop, pc, keys, idx, eheld, result>>
winVars == <<exists, visible, focused, whist>>

(***************************************************************************)
(* Bounds of the model.                                                    *)
(***************************************************************************)
MaxKeys == 3        \* longest token list given to keyboard_shortcut
MaxConcKeys == 2    \* longest token list when two callers run together
MaxWinCalls == 2    \* window commands per behaviour

(***************************************************************************)
(* Characters and strings.                                                 *)
(***************************************************************************)
UpperLetters == <<"A","B","C","D","E","F","G","H","I","J","K","L","M",
                  "N","O","P","Q","R","S","T","U","V","W","X","Y","Z">>
LowerLetters == <<"a","b","c","d","e","f","g","h","i","j","k","l","m",
                  "n","o","p","q","r","s","t","u","v","w","x","y","z">>

\* char::to_lowercase on the characters of the model: A-Z and U+00C9 (E acute).
char_to_lowercase(c) ==
    IF \E i \in 1..Len(UpperLetters) : UpperLetters[i] = c
    THEN LowerLetters[CHOOSE i \in 1..Len(UpperLetters) : UpperLetters[i] = c]
    ELSE IF c = "U+00C9" THEN "U+00E9" ELSE c

\* Mutant: the token is matched as given, not lower-cased.
to_lowercase_missing(s) == s

\* str::to_lowercase, character by character.
to_lowercase(s) == [i \in 1..Len(s) |-> char_to_lowercase(s[i])]

\* char::len_utf8: the bytes of a character's UTF-8 encoding.
len_utf8(c) == IF c \in {"U+00C9", "U+00E9"} THEN 2 ELSE 1

\* str::len: the length of a string in BYTES.
RECURSIVE str_len(_)
str_len(s) == IF s = <<>> THEN 0 ELSE len_utf8(Head(s)) + str_len(Tail(s))

\* The number of characters of a string (str::chars().count()).
char_count(s) == Len(s)

\* Vec<String>::join(sep).
RECURSIVE join(_, _)
join(strs, sep) ==
    IF strs = <<>> THEN <<>>
    ELSE IF Len(strs) = 1 THEN strs[1]
    ELSE strs[1] \o sep \o join(Tail(strs), sep)

(***************************************************************************)
(* The string literals of the match arms.                                  *)
(***************************************************************************)
S_shift   == <<"s","h","i","f","t">>
S_control == <<"c","o","n","t","r","o","l">>
S_ctrl    == <<"c","t","r","l">>
S_alt     == <<"a","l","t">>
S_meta    == <<"m","e","t","a">>
S_windows == <<"w","i","n","d","o","w","s">>
S_cmd     == <<"c","m","d">>
S_command == <<"c","o","m","m","a","n","d">>
S_left    == <<"l","e","f","t">>
S_right   == <<"r","i","g","h","t">>
S_middle  == <<"m","i","d","d","l","e">>

Modifiers == {"Shift", "Control", "Alt", "Meta"}

(***************************************************************************)
(* keyboard_shortcut: the match of the press loop, on the lower-cased      *)
(* token.  "single" is the arm `single if single.len() == 1`, "none" the   *)
(* wildcard arm.                                                           *)
(***************************************************************************)
press_match(low) ==
    CASE low = S_shift -> "Shift"
      [] low \in {S_control, S_ctrl} -> "Control"
      [] low = S_alt -> "Alt"
      [] low \in {S_meta, S_windows, S_cmd, S_command} -> "Meta"
      [] str_len(low) = 1 -> "single"
      [] OTHER -> "none"

\* Mutant: the release loop does not know the alias "control".
release_match_no_control(low) ==
    CASE low = S_shift -> "Shift"
      [] low = S_ctrl -> "Control"
      [] low = S_alt -> "Alt"
      [] low \in {S_meta, S_windows, S_cmd, S_command} -> "Meta"
      [] OTHER -> "none"

\* keyboard_shortcut: the match of the release loop; "none" is `_ => continue`.
release_match(low) ==
    CASE low = S_shift -> "Shift"
      [] low \in {S_control, S_ctrl} -> "Control"
      [] low = S_alt -> "Alt"
      [] low \in {S_meta, S_windows, S_cmd, S_command} -> "Meta"
      [] OTHER -> "none"

(***************************************************************************)
(* Results.  Ok(format!(...)) and Err(format!(...)) keep the literal part  *)
(* of the message in `msg` and the interpolated value in `text`.           *)
(***************************************************************************)
Ok(msg, text)  == [ok |-> TRUE,  msg |-> msg, text |-> text]
\* Mutant: the message is formatted with the lower-cased token.
Err_lowercased(msg, text) ==
    [ok |-> FALSE, msg |-> msg,
     text |-> [i \in 1..Len(text) |->
                 IF \E k \in 1..26 : text[i] = UpperLetters[k]
                 THEN LowerLetters[CHOOSE k \in 1..26 : text[i] = UpperLetters[k]]
                 ELSE text[i]]]
Err(msg, text) == [ok |-> FALSE, msg |-> msg, text |-> text]
\* e.to_string() of an error of enigo or of the windowing host.
PlatformErr == Err("platform error", <<>>)
NoResult == [ok |-> FALSE, msg |-> "", text |-> <<>>]

(***************************************************************************)
(* The injector.  Every call is recorded, with whether it succeeded; a     *)
(* failed call has no effect.  Key presses go to the one OS input stream   *)
(* (down); each Enigo instance remembers the keys it holds (eheld) and,    *)
(* when release_keys_when_dropped is set, releases them when dropped.      *)
(***************************************************************************)
Call(p, call, arg, ok) == [who |-> p, call |-> call, arg |-> arg, ok |-> ok]

\* drop(enigo) at the end of a command.
DropDown(p, dn, held) == IF releaseOnDrop THEN dn \ held ELSE dn

\* Mutant: a failed injector call does not end the command, the loop goes on
\* from the same token.
Return_retrying(p, res, dn, held) ==
    IF res = [ok |-> FALSE, msg |-> "platform error", text |-> <<>>] /\ pc[p] # "idle"
    THEN /\ down' = dn
         /\ UNCHANGED <<pc, result, eheld>>
    ELSE /\ pc' = [pc EXCEPT ![p] = "done"]
         /\ result' = [result EXCEPT ![p] = res]
         /\ down' = DropDown(p, dn, held)
         /\ eheld' = [eheld EXCEPT ![p] = {}]

\* The command of caller p returns res; its Enigo is dropped.
Return(p, res, dn, held) ==
    /\ pc' = [pc EXCEPT ![p] = "done"]
    /\ result' = [result EXCEPT ![p] = res]
    /\ down' = DropDown(p, dn, held)
    /\ eheld' = [eheld EXCEPT ![p] = {}]

(***************************************************************************)
(* keyboard_shortcut(keys), one step per iteration of its loops: every     *)
(* iteration makes one call into the OS, and another command may run       *)
(* between two of them.                                                    *)
(***************************************************************************)
\* Enigo::new(&Settings::default()), then the entry of the press loop.
keyboard_shortcut_begin(p, ks, newOk) ==
    /\ pc[p] = "idle"
    /\ keys' = [keys EXCEPT ![p] = ks]
    /\ idx' = [idx EXCEPT ![p] = 1]
    /\ IF newOk
       THEN /\ pc' = [pc EXCEPT ![p] = "press"]
            /\ UNCHANGED <<result, down, eheld>>
       ELSE Return(p, PlatformErr, down, {})
    /\ UNCHANGED <<ilog, releaseOnDrop, pointer, last, winVars>>

\* One iteration of `for key in &keys` (or its exit).
keyboard_shortcut_press(p, ok) ==
    /\ pc[p] = "press"
    /\ IF idx[p] > Len(keys[p])
       THEN /\ pc' = [pc EXCEPT ![p] = "release"]
            /\ idx' = [idx EXCEPT ![p] = Len(keys[p])]
            /\ UNCHANGED <<ilog, down, eheld, result>>
       ELSE LET key == keys[p][idx[p]]
                low == to_lowercase(key)
                m   == press_match(low)
            IN  CASE m \in Modifiers ->
                       /\ ilog' = Append(ilog, Call(p, "Press", m, ok))
                       /\ IF ok
                          THEN /\ down' = down \cup {m}
                               /\ eheld' = [eheld EXCEPT ![p] = @ \cup {m}]
                               /\ idx' = [idx EXCEPT ![p] = @ + 1]
                               /\ UNCHANGED <<pc, result>>
                          ELSE /\ Return(p, PlatformErr, down, eheld[p])
                               /\ UNCHANGED idx
                  [] m = "single" ->
                       /\ ilog' = Append(ilog, Call(p, "Text", low, ok))
                       /\ IF ok
                          THEN /\ idx' = [idx EXCEPT ![p] = @ + 1]
                               /\ UNCHANGED <<pc, result, down, eheld>>
                          ELSE /\ Return(p, PlatformErr, down, eheld[p])
                               /\ UNCHANGED idx
                  [] OTHER ->
                       /\ Return(p, Err("Unsupported key in shortcut: {}", key),
                                 down, eheld[p])
                       /\ UNCHANGED <<ilog, idx>>
    /\ UNCHANGED <<keys, releaseOnDrop, pointer, last, winVars>>

\* One iteration of `for key in keys.iter().rev()` (or its exit and the Ok).
keyboard_shortcut_release(p, ok) ==
    /\ pc[p] = "release"
    /\ IF idx[p] = 0
       THEN /\ Return(p, Ok("Executed keyboard shortcut: {}",
                            join(keys[p], <<"+">>)), down, eheld[p])
            /\ UNCHANGED <<ilog, idx>>
       ELSE LET key == keys[p][idx[p]]
                m   == release_match(to_lowercase(key))
            IN  IF m \in Modifiers
                THEN /\ ilog' = Append(ilog, Call(p, "Release", m, ok))
                     /\ IF ok
                        THEN /\ down' = down \ {m}
                             /\ eheld' = [eheld EXCEPT ![p] = @ \ {m}]
                             /\ idx' = [idx EXCEPT ![p] = @ - 1]
                             /\ UNCHANGED <<pc, result>>
                        ELSE /\ Return(p, PlatformErr, down, eheld[p])
                             /\ UNCHANGED idx
                ELSE /\ idx' = [idx EXCEPT ![p] = @ - 1]
                     /\ UNCHANGED <<ilog, pc, result, down, eheld>>
    /\ UNCHANGED <<keys, releaseOnDrop, pointer, last, winVars>>


(***************************************************************************)
(* Callers and inputs.                                                     *)
(***************************************************************************)
Callers == {1, 2}

\* Tokens given to keyboard_shortcut: modifier aliases in several casings,
\* single characters (lower case, upper case, a two-byte one), a named
\* non-modifier key.
Tokens ==
    { S_ctrl, <<"C","O","N","T","R","O","L">>, S_shift,
      <<"s">>, <<"A">>, <<"U+00E9">>, <<"E","n","t","e","r">> }
ConcTokens == { S_ctrl, S_shift, <<"s">> }

KeyLists(toks, n) == UNION { [1..k -> toks] : k \in 0..n }

NoLast == [op |-> "none", arg |-> <<>>, created |-> FALSE, calls |-> <<>>,
           result |-> NoResult, pre |-> <<0, 0>>, moved |-> <<>>]

InitInjector ==
    /\ ilog = <<>>
    /\ down = {}
    /\ releaseOnDrop \in BOOLEAN
    /\ pointer = <<0, 0>>
    /\ pc = [p \in Callers |-> "idle"]
    /\ keys = [p \in Callers |-> <<>>]
    /\ idx = [p \in Callers |-> 0]
    /\ eheld = [p \in Callers |-> {}]
    /\ result = [p \in Callers |-> NoResult]
    /\ last = NoLast

InitWindows ==
    /\ exists = [w \in {"main", "bubble"} |-> TRUE]
    /\ visible = [w \in {"main", "bubble"} |-> w = "main"]
    /\ focused = "main"
    /\ whist = <<>>

Init == InitInjector /\ InitWindows

\* One caller: commands arrive serially.
Next ==
    \/ \E ks \in KeyLists(Tokens, MaxKeys), newOk \in BOOLEAN :
          keyboard_shortcut_begin(1, ks, newOk)
    \/ \E ok \in BOOLEAN : keyboard_shortcut_press(1, ok)
    \/ \E ok \in BOOLEAN : keyboard_shortcut_release(1, ok)

Spec == Init /\ [][Next]_vars

\* Two callers whose keyboard_shortcut commands the host runs together.
NextConc ==
    \E p \in Callers :
        \/ \E ks \in KeyLists(ConcTokens, MaxConcKeys), newOk \in BOOLEAN :
              keyboard_shortcut_begin(p, ks, newOk)
        \/ \E ok \in BOOLEAN : keyboard_shortcut_press(p, ok)
        \/ \E ok \in BOOLEAN : keyboard_shortcut_release(p, ok)

SpecConc == Init /\ [][NextConc]_vars

(***************************************************************************)
(* The window commands.  Each is one call on the host's main thread; the   *)
(* outcome of every host call (is_visible, hide, show, set_focus) is an    *)
(* input.  A failed call changes nothing.                                  *)
(***************************************************************************)
Windows == {"main", "bubble"}

WCall(w, call, ok) == [win |-> w, call |-> call, ok |-> ok]

\* What a command leaves: visibility, focus, the host calls made, the result.
Outcome(vis, foc, calls, res) ==
    [vis |-> vis, foc |-> foc, calls |-> calls, res |-> res]

\* WebviewWindow::hide / show / set_focus on the host's state.
Hidden(vis, w) == [vis EXCEPT ![w] = FALSE]
\* Mutant: showing a window hides the other one.
Shown_exclusive(vis, w) == [x \in Windows |-> x = w]
\* Mutant: show() reports success and leaves the window as it was.
Shown_noop(vis, w) == vis
Shown(vis, w)  == [vis EXCEPT ![w] = TRUE]
Unfocus(foc, w) == IF foc = w THEN "none" ELSE foc

\* Mutant: the lookup of the bubble window is not checked.
get_webview_window_unchecked(ex, label) == label = "bubble" \/ ex[label]

\* AppHandle::get_webview_window(label).is_some().
get_webview_window(ex, label) == ex[label]

\* Mutant: the branch condition of toggle inverted.
is_visible_or_false_inverted(vis, qOk) == IF qOk THEN ~vis["main"] ELSE FALSE

\* Mutant: a failed visibility query counts as visible, unwrap_or(true).
is_visible_or_true(vis, qOk) == IF qOk THEN vis["main"] ELSE TRUE

\* The branch condition of toggle: main_window.is_visible().unwrap_or(false).
is_visible_or_false(vis, qOk) == IF qOk THEN vis["main"] ELSE FALSE

\* Mutant: the bubble's set_focus error is propagated with `?`.
bubble_focus_propagated(fOk) == fOk

\* bubble_window.set_focus().ok(): the Result is discarded, the command goes on.
bubble_focus_continues(fOk) == TRUE

\* main_window.set_focus().map_err(..)?: the command goes on only after an Ok.
main_focus_continues(fOk) == fOk

\* toggle_main_window.
toggle_main_window_outcome(ex, vis, foc, qOk, hOk, sOk, fOk) ==
    IF ~get_webview_window(ex, "main")
    THEN Outcome(vis, foc, <<>>, Err("Main window not found", <<>>))
    ELSE IF ~get_webview_window(ex, "bubble")
    THEN Outcome(vis, foc, <<>>, Err("Bubble window not found", <<>>))
    ELSE LET q == <<WCall("main", "is_visible", qOk)>> IN
      IF is_visible_or_false(vis, qOk)
      THEN \* Hide main, show bubble
        IF ~hOk
        THEN Outcome(vis, foc, q \o <<WCall("main", "hide", FALSE)>>, PlatformErr)
        ELSE IF ~sOk
        THEN Outcome(Hidden(vis, "main"), Unfocus(foc, "main"),
                     q \o <<WCall("main", "hide", TRUE),
                            WCall("bubble", "show", FALSE)>>, PlatformErr)
        ELSE Outcome(Shown(Hidden(vis, "main"), "bubble"),
                     IF fOk THEN "bubble" ELSE Unfocus(foc, "main"),
                     q \o <<WCall("main", "hide", TRUE),
                            WCall("bubble", "show", TRUE),
                            WCall("bubble", "set_focus", fOk)>>,
                     IF bubble_focus_continues(fOk)
                     THEN Ok("Switched to bubble mode", <<>>) ELSE PlatformErr)
      ELSE \* Show main, keep bubble visible
        IF ~sOk
        THEN Outcome(vis, foc, q \o <<WCall("main", "show", FALSE)>>, PlatformErr)
        ELSE Outcome(Shown(vis, "main"), IF fOk THEN "main" ELSE foc,
                     q \o <<WCall("main", "show", TRUE),
                            WCall("main", "set_focus", fOk)>>,
                     IF main_focus_continues(fOk)
                     THEN Ok("Switched to main window", <<>>) ELSE PlatformErr)

\* Mutant: minimize_to_bubble written as a toggle.
minimize_as_toggle(ex, vis, foc, hOk, sOk, fOk) ==
    toggle_main_window_outcome(ex, vis, foc, TRUE, hOk, sOk, fOk)

\* minimize_to_bubble.
minimize_to_bubble_outcome(ex, vis, foc, hOk, sOk, fOk) ==
    IF ~get_webview_window(ex, "main")
    THEN Outcome(vis, foc, <<>>, Err("Main window not found", <<>>))
    ELSE IF ~get_webview_window(ex, "bubble")
    THEN Outcome(vis, foc, <<>>, Err("Bubble window not found", <<>>))
    ELSE IF ~hOk
    THEN Outcome(vis, foc, <<WCall("main", "hide", FALSE)>>, PlatformErr)
    ELSE IF ~sOk
    THEN Outcome(Hidden(vis, "main"), Unfocus(foc, "main"),
                 <<WCall("main", "hide", TRUE),
                   WCall("bubble", "show", FALSE)>>, PlatformErr)
    ELSE Outcome(Shown(Hidden(vis, "main"), "bubble"),
                 IF fOk THEN "bubble" ELSE Unfocus(foc, "main"),
                 <<WCall("main", "hide", TRUE),
                   WCall("bubble", "show", TRUE),
                   WCall("bubble", "set_focus", fOk)>>,
                 IF bubble_focus_continues(fOk)
                 THEN Ok("Minimized to bubble", <<>>) ELSE PlatformErr)

\* Mutant: expand_from_bubble also looks up the bubble window.
expand_requiring_bubble(ex, vis, foc, sOk, fOk) ==
    IF ~get_webview_window(ex, "main")
    THEN Outcome(vis, foc, <<>>, Err("Main window not found", <<>>))
    ELSE IF ~get_webview_window(ex, "bubble")
    THEN Outcome(vis, foc, <<>>, Err("Bubble window not found", <<>>))
    ELSE IF ~sOk
    THEN Outcome(vis, foc, <<WCall("main", "show", FALSE)>>, PlatformErr)
    ELSE Outcome(Shown(vis, "main"), IF fOk THEN "main" ELSE foc,
                 <<WCall("main", "show", TRUE),
                   WCall("main", "set_focus", fOk)>>,
                 IF main_focus_continues(fOk)
                 THEN Ok("Expanded to main window", <<>>) ELSE PlatformErr)

\* expand_from_bubble: only the main window is looked up.
expand_from_bubble_outcome(ex, vis, foc, sOk, fOk) ==
    IF ~get_webview_window(ex, "main")
    THEN Outcome(vis, foc, <<>>, Err("Main window not found", <<>>))
    ELSE IF ~sOk
    THEN Outcome(vis, foc, <<WCall("main", "show", FALSE)>>, PlatformErr)
    ELSE Outcome(Shown(vis, "main"), IF fOk THEN "main" ELSE foc,
                 <<WCall("main", "show", TRUE),
                   WCall("main", "set_focus", fOk)>>,
                 IF main_focus_continues(fOk)
                 THEN Ok("Expanded to main window", <<>>) ELSE PlatformErr)

\* A window command ran: the host's state changes and the call is recorded.
Recorded(op, out) ==
    Append(whist, [op |-> op, pre |-> visible, post |-> out.vis,
                   calls |-> out.calls, result |-> out.res])

toggle_main_window ==
    \E qOk, hOk, sOk, fOk \in BOOLEAN :
        LET out == toggle_main_window_outcome(exists, visible, focused,
                                              qOk, hOk, sOk, fOk)
        IN  /\ Len(whist) < MaxWinCalls
            /\ visible' = out.vis
            /\ focused' = out.foc
            /\ whist' = Recorded("toggle_main_window", out)
            /\ UNCHANGED <<exists, injVars, pointer, last>>

minimize_to_bubble ==
    \E hOk, sOk, fOk \in BOOLEAN :
        LET out == minimize_to_bubble_outcome(exists, visible, focused,
                                              hOk, sOk, fOk)
        IN  /\ Len(whist) < MaxWinCalls
            /\ visible' = out.vis
            /\ focused' = out.foc
            /\ whist' = Recorded("minimize_to_bubble", out)
            /\ UNCHANGED <<exists, injVars, pointer, last>>

expand_from_bubble ==
    \E sOk, fOk \in BOOLEAN :
        LET out == expand_from_bubble_outcome(exists, visible, focused, sOk, fOk)
        IN  /\ Len(whist) < MaxWinCalls
            /\ visible' = out.vis
            /\ focused' = out.foc
            /\ whist' = Recorded("expand_from_bubble", out)
            /\ UNCHANGED <<exists, injVars, pointer, last>>

\* The windows the host may have when a command arrives: any of the two may be
\* missing, and an existing window may be shown or hidden.
InitWindowsAny ==
    /\ exists \in [Windows -> BOOLEAN]
    /\ visible \in [Windows -> BOOLEAN]
    /\ \A w \in Windows : visible[w] => exists[w]
    /\ focused \in {"none"} \cup {w \in Windows : visible[w]}
    /\ whist = <<>>

InitWin == InitInjector /\ InitWindowsAny

NextWin == toggle_main_window \/ minimize_to_bubble \/ expand_from_bubble

SpecWin == InitWin /\ [][NextWin]_vars

(***************************************************************************)
(* The single-call input commands.  Each creates its own Enigo, makes at   *)
(* most one injector call and returns; `last` records the command: its     *)
(* argument, whether Enigo::new succeeded (created), the injector calls it *)
(* made, its result, the pointer before it (pre) and the target of the     *)
(* latest successful mouse_move (moved).                                   *)
(***************************************************************************)
Coords == {-1, 0, 100, 200}

\* Tokens given to mouse_click.
ButtonTokens ==
    { S_left, <<"L","E","F","T">>, S_right, <<"M","i","d","d","l","e">>,
      <<"p","u","r","p","l","e">>, <<>> }

ICall(call, arg, ok) == [call |-> call, arg |-> arg, ok |-> ok]

Command(op, arg, created, calls, res, moved) ==
    [op |-> op, arg |-> arg, created |-> created, calls |-> calls,
     result |-> res, pre |-> pointer, moved |-> moved]

\* Mutant: the move is made with Coordinate::Rel.
move_mouse_rel(x, y) == <<pointer[1] + x, pointer[2] + y>>

\* Enigo::move_mouse(x, y, Coordinate::Abs) on an injector that records the pointer.
move_mouse_abs(x, y) == <<x, y>>

\* Enigo::location().
location == pointer

\* Mutant: the wildcard arm falls back to the left button.
button_match_default_left(low) ==
    CASE low = S_right -> "Right"
      [] low = S_middle -> "Middle"
      [] OTHER -> "Left"

\* mouse_click: the match on the lower-cased button token.
button_match(low) ==
    CASE low = S_left -> "Left"
      [] low = S_right -> "Right"
      [] low = S_middle -> "Middle"
      [] OTHER -> "none"

mouse_move(x, y, newOk, ok) ==
    /\ pointer' = IF newOk /\ ok THEN move_mouse_abs(x, y) ELSE pointer
    /\ last' = IF ~newOk
               THEN Command("mouse_move", <<x, y>>, FALSE, <<>>, PlatformErr,
                            last.moved)
               ELSE IF ~ok
               THEN Command("mouse_move", <<x, y>>, TRUE,
                            <<ICall("MoveAbs", <<x, y>>, FALSE)>>, PlatformErr,
                            last.moved)
               ELSE Command("mouse_move", <<x, y>>, TRUE,
                            <<ICall("MoveAbs", <<x, y>>, TRUE)>>,
                            Ok("Moved mouse to ({}, {})", <<x, y>>), <<x, y>>)
    /\ UNCHANGED <<injVars, winVars>>

mouse_click(button, newOk, ok) ==
    /\ last' = LET b == button_match(to_lowercase(button)) IN
               IF ~newOk
               THEN Command("mouse_click", button, FALSE, <<>>, PlatformErr,
                            last.moved)
               ELSE IF b = "none"
               THEN Command("mouse_click", button, TRUE, <<>>,
                            Err("Invalid button: {}. Use 'left', 'right', or 'middle'",
                                button), last.moved)
               ELSE IF ~ok
               THEN Command("mouse_click", button, TRUE,
                            <<ICall("ButtonClick", b, FALSE)>>, PlatformErr,
                            last.moved)
               ELSE Command("mouse_click", button, TRUE,
                            <<ICall("ButtonClick", b, TRUE)>>,
                            Ok("Clicked {} mouse button", button), last.moved)
    /\ UNCHANGED <<pointer, injVars, winVars>>

get_mouse_position(newOk, ok) ==
    /\ last' = IF ~newOk
               THEN Command("get_mouse_position", <<>>, FALSE, <<>>, PlatformErr,
                            last.moved)
               ELSE IF ~ok
               THEN Command("get_mouse_position", <<>>, TRUE,
                            <<ICall("Location", <<>>, FALSE)>>, PlatformErr,
                            last.moved)
               ELSE Command("get_mouse_position", <<>>, TRUE,
                            <<ICall("Location", <<>>, TRUE)>>,
                            Ok("", location), last.moved)
    /\ UNCHANGED <<pointer, injVars, winVars>>

NextInput ==
    \/ \E x, y \in Coords, newOk, ok \in BOOLEAN : mouse_move(x, y, newOk, ok)
    \/ \E b \in ButtonTokens, newOk, ok \in BOOLEAN : mouse_click(b, newOk, ok)
    \/ \E newOk, ok \in BOOLEAN : get_mouse_position(newOk, ok)

SpecInput == Init /\ [][NextInput]_vars

(***************************************************************************)
(* keyboard_press(key): the match on the lower-cased key, then one         *)
(* Direction::Click of the resolved key.                                   *)
(***************************************************************************)
\* keyboard_press: the match on the lower-cased key; "none" is the wildcard arm.
key_match(low) ==
    CASE low \in {<<"e","n","t","e","r">>, <<"r","e","t","u","r","n">>} -> "Return"
      [] low = <<"t","a","b">> -> "Tab"
      [] low \in {<<"e","s","c","a","p","e">>, <<"e","s","c">>} -> "Escape"
      [] low = <<"b","a","c","k","s","p","a","c","e">> -> "Backspace"
      [] low \in {<<"d","e","l","e","t","e">>, <<"d","e","l">>} -> "Delete"
      [] low \in {<<"u","p">>, <<"u","p","a","r","r","o","w">>} -> "UpArrow"
      [] low \in {<<"d","o","w","n">>, <<"d","o","w","n","a","r","r","o","w">>} -> "DownArrow"
      [] low \in {<<"l","e","f","t">>, <<"l","e","f","t","a","r","r","o","w">>} -> "LeftArrow"
      [] low \in {<<"r","i","g","h","t">>, <<"r","i","g","h","t","a","r","r","o","w">>} -> "RightArrow"
      [] low = <<"h","o","m","e">> -> "Home"
      [] low = <<"e","n","d">> -> "End"
      [] low = <<"p","a","g","e","u","p">> -> "PageUp"
      [] low = <<"p","a","g","e","d","o","w","n">> -> "PageDown"
      [] low = <<"s","p","a","c","e">> -> "Space"
      [] low = <<"s","h","i","f","t">> -> "Shift"
      [] low \in {<<"c","o","n","t","r","o","l">>, <<"c","t","r","l">>} -> "Control"
      [] low = <<"a","l","t">> -> "Alt"
      [] low \in {<<"m","e","t","a">>, <<"w","i","n","d","o","w","s">>, <<"c","m","d">>, <<"c","o","m","m","a","n","d">>} -> "Meta"
      [] OTHER -> "none"

keyboard_press(key, newOk, ok) ==
    /\ last' = LET k == key_match(to_lowercase(key)) IN
               IF ~newOk
               THEN Command("keyboard_press", key, FALSE, <<>>, PlatformErr,
                            last.moved)
               ELSE IF k = "none"
               THEN Command("keyboard_press", key, TRUE, <<>>,
                            Err("Unsupported key: {}. Use special key names like 'enter', 'tab', 'escape', etc.",
                                key), last.moved)
               ELSE IF ~ok
               THEN Command("keyboard_press", key, TRUE,
                            <<ICall("KeyClick", k, FALSE)>>, PlatformErr,
                            last.moved)
               ELSE Command("keyboard_press", key, TRUE,
                            <<ICall("KeyClick", k, TRUE)>>,
                            Ok("Pressed key: {}", key), last.moved)
    /\ UNCHANGED <<pointer, injVars, winVars>>

(***************************************************************************)
(* One command per behaviour: the caller gives one keyboard_press,         *)
(* mouse_click or keyboard_shortcut its argument, and the command runs.    *)
(* The arguments cover every letter-casing of every alias.                 *)
(***************************************************************************)
\* The aliases of the documentation's key table, each with its key symbol.
KeyAliases ==
    { <<<<"e","n","t","e","r">>, "Return">>,
      <<<<"r","e","t","u","r","n">>, "Return">>,
      <<<<"t","a","b">>, "Tab">>,
      <<<<"e","s","c","a","p","e">>, "Escape">>,
      <<<<"e","s","c">>, "Escape">>,
      <<<<"b","a","c","k","s","p","a","c","e">>, "Backspace">>,
      <<<<"d","e","l","e","t","e">>, "Delete">>,
      <<<<"d","e","l">>, "Delete">>,
      <<<<"u","p">>, "UpArrow">>,
      <<<<"u","p","a","r","r","o","w">>, "UpArrow">>,
      <<<<"d","o","w","n">>, "DownArrow">>,
      <<<<"d","o","w","n","a","r","r","o","w">>, "DownArrow">>,
      <<<<"l","e","f","t">>, "LeftArrow">>,
      <<<<"l","e","f","t","a","r","r","o","w">>, "LeftArrow">>,
      <<<<"r","i","g","h","t">>, "RightArrow">>,
      <<<<"r","i","g","h","t","a","r","r","o","w">>, "RightArrow">>,
      <<<<"h","o","m","e">>, "Home">>,
      <<<<"e","n","d">>, "End">>,
      <<<<"p","a","g","e","u","p">>, "PageUp">>,
      <<<<"p","a","g","e","d","o","w","n">>, "PageDown">>,
      <<<<"s","p","a","c","e">>, "Space">>,
      <<<<"s","h","i","f","t">>, "Shift">>,
      <<<<"c","o","n","t","r","o","l">>, "Control">>,
      <<<<"c","t","r","l">>, "Control">>,
      <<<<"a","l","t">>, "Alt">>,
      <<<<"m","e","t","a">>, "Meta">>,
      <<<<"w","i","n","d","o","w","s">>, "Meta">>,
      <<<<"c","m","d">>, "Meta">>,
      <<<<"c","o","m","m","a","n","d">>, "Meta">> }

UpperOf(c) ==
    IF \E i \in 1..Len(LowerLetters) : LowerLetters[i] = c
    THEN UpperLetters[CHOOSE i \in 1..Len(LowerLetters) : LowerLetters[i] = c]
    ELSE c

\* Every letter-casing of a lower-case word.
Casings(w) ==
    { [i \in 1..Len(w) |-> IF i \in U THEN UpperOf(w[i]) ELSE w[i]] :
        U \in SUBSET (1..Len(w)) }

\* Keys given to keyboard_press: every casing of every alias, and keys that
\* are no alias (a single character, a two-byte character, unknown names in
\* mixed case, the empty string).
PressTokens ==
    UNION { Casings(a[1]) : a \in KeyAliases }
    \cup { <<"a">>, <<"A">>, <<"U+00E9">>, <<"F","5">>, <<>>,
           <<"E","n","t","e","r","s">> }

\* Token lists given to keyboard_shortcut: the lists of Tokens, and every
\* casing of every modifier alias as a one-token list.
CommandLists ==
    KeyLists(Tokens, MaxKeys)
    \cup { <<t>> : t \in UNION { Casings(a[1]) : a \in {b \in KeyAliases : b[2] \in Modifiers} } }

\* No command has run yet.
Fresh == last.op = "none" /\ pc[1] = "idle"

NextCommand ==
    \/ /\ Fresh
       /\ \E key \in PressTokens, newOk, ok \in BOOLEAN : keyboard_press(key, newOk, ok)
    \/ /\ Fresh
       /\ \E b \in ButtonTokens, newOk, ok \in BOOLEAN : mouse_click(b, newOk, ok)
    \/ /\ Fresh
       /\ \E ks \in CommandLists, newOk \in BOOLEAN :
             keyboard_shortcut_begin(1, ks, newOk)
    \/ \E ok \in BOOLEAN : keyboard_shortcut_press(1, ok)
    \/ \E ok \in BOOLEAN : keyboard_shortcut_release(1, ok)

SpecCommand == Init /\ [][NextCommand]_vars

(***************************************************************************)
(* Properties of keyboard_shortcut.                                        *)
(***************************************************************************)
\* The alias table of the documentation: the symbol of a modifier alias,
\* matched case-insensitively, or "none".
SpecModifier(tok) ==
    LET low == to_lowercase(tok) IN
    CASE low = S_shift -> "Shift"
      [] low = S_ctrl \/ low = S_control -> "Control"
      [] low = S_alt -> "Alt"
      [] low = S_meta \/ low = S_windows \/ low = S_cmd \/ low = S_command -> "Meta"
      [] OTHER -> "none"

\* A single character, as the documentation counts: one character, no alias.
SpecSingleChar(tok) == SpecModifier(tok) = "none" /\ char_count(tok) = 1

SpecResolvable(tok) == SpecModifier(tok) # "none" \/ SpecSingleChar(tok)

Ev(call, arg) == <<call, arg>>

\* The calls caller p issued, in order, as <<call, arg>>.
RECURSIVE EventsOf(_, _)
EventsOf(log, p) ==
    IF log = <<>> THEN <<>>
    ELSE (IF Head(log).who = p THEN <<Ev(Head(log).call, Head(log).arg)>> ELSE <<>>)
         \o EventsOf(Tail(log), p)

\* Press(modifier) / Text(lower-cased char) for the tokens in the given order.
RECURSIVE PressPhase(_)
PressPhase(ks) ==
    IF ks = <<>> THEN <<>>
    ELSE <<IF SpecModifier(Head(ks)) # "none"
           THEN Ev("Press", SpecModifier(Head(ks)))
           ELSE Ev("Text", to_lowercase(Head(ks)))>> \o PressPhase(Tail(ks))

\* Release(modifier) for the modifier tokens, last token first.
RECURSIVE ReleasePhase(_)
ReleasePhase(ks) ==
    IF ks = <<>> THEN <<>>
    ELSE ReleasePhase(Tail(ks))
         \o (IF SpecModifier(Head(ks)) # "none"
             THEN <<Ev("Release", SpecModifier(Head(ks)))>> ELSE <<>>)

AllCallsOk(p) == \A i \in 1..Len(ilog) : ilog[i].who = p => ilog[i].ok

\* C1: when every token is a modifier alias or a single character and every
\* injector call succeeds, the calls recorded for the command are the press
\* phase of the tokens in order followed by the releases of the modifiers in
\* reverse order.
C1_PressReleaseSequence ==
    ( /\ pc[1] = "done"
      /\ \A i \in 1..Len(keys[1]) : SpecResolvable(keys[1][i])
      /\ result[1] # PlatformErr
      /\ AllCallsOk(1) )
    => EventsOf(ilog, 1) = PressPhase(keys[1]) \o ReleasePhase(keys[1])

\* C2: when a token of the list is neither a modifier alias nor a single
\* character and keyboard_shortcut returns the unsupported-key error, the
\* injector has recorded no call and no modifier is held.
C2_FailsBeforeAnyEvent ==
    ( /\ pc[1] = "done"
      /\ \E i \in 1..Len(keys[1]) : ~SpecResolvable(keys[1][i])
      /\ result[1].msg = "Unsupported key in shortcut: {}" )
    => (ilog = <<>> /\ down = {})

\* C8: the injector calls of two keyboard_shortcut commands running together
\* are never interleaved: each command's calls are contiguous in the log.
C8_NoInterleaving ==
    \A i, j, k \in 1..Len(ilog) :
        (i < j /\ j < k /\ ilog[i].who = ilog[k].who) => ilog[j].who = ilog[i].who

(***************************************************************************)
(* Properties of the window commands.                                      *)
(***************************************************************************)
MainOnly   == [w \in Windows |-> w = "main"]       \* main shown, bubble hidden
BubbleOnly == [w \in Windows |-> w = "bubble"]     \* bubble shown, main hidden
BothShown  == [w \in Windows |-> TRUE]

BothExist == exists["main"] /\ exists["bubble"]

NotFound == {"Main window not found", "Bubble window not found"}

\* Every host call of command e succeeded.
AllOk(e) == \A k \in 1..Len(e.calls) : e.calls[k].ok
\* Every hide and show of command e succeeded.
HideShowOk(e) ==
    \A k \in 1..Len(e.calls) : e.calls[k].call \in {"hide", "show"} => e.calls[k].ok
Mutations(e) ==
    {k \in 1..Len(e.calls) : e.calls[k].call \in {"hide", "show", "set_focus"}}
FocusFailed(e, w) ==
    \E k \in 1..Len(e.calls) : e.calls[k] = WCall(w, "set_focus", FALSE)
QueryOk(e) == \E k \in 1..Len(e.calls) : e.calls[k] = WCall("main", "is_visible", TRUE)

\* Commands i and i+1 are both op, on two existing windows.
Twice(i, op) ==
    /\ i \in 1..(Len(whist) - 1)
    /\ whist[i].op = op /\ whist[i + 1].op = op
    /\ BothExist

TwoToggles(i) ==
    /\ Twice(i, "toggle_main_window")
    /\ AllOk(whist[i]) /\ AllOk(whist[i + 1])
    /\ whist[i].pre = MainOnly

\* C3 as stated: from main shown and bubble hidden, two toggles whose host
\* calls all succeed end with main shown and bubble hidden.
C3_ToggleInvolution ==
    \A i \in 1..Len(whist) : TwoToggles(i) => whist[i + 1].post = MainOnly

\* C3, amended: from main shown and bubble hidden, two toggles whose host
\* calls all succeed end with main shown and the bubble still shown.
C3_ToggleTwiceKeepsBubble ==
    \A i \in 1..Len(whist) :
        TwoToggles(i) => (whist[i].post = BubbleOnly /\ whist[i + 1].post = BothShown)

C3_Witness == \E i \in 1..Len(whist) : TwoToggles(i)

\* C4: toggle_main_window and minimize_to_bubble return a window-not-found
\* error whenever a window is missing, make no hide, show or set_focus call
\* and leave the visibility as it was.
C4_NotFoundNoMutation ==
    \A i \in 1..Len(whist) :
        ( /\ whist[i].op \in {"toggle_main_window", "minimize_to_bubble"}
          /\ ~BothExist )
        => ( /\ ~whist[i].result.ok
             /\ whist[i].result.msg \in NotFound
             /\ Mutations(whist[i]) = {}
             /\ whist[i].post = whist[i].pre )

C4_Witness ==
    /\ Len(whist) = 2
    /\ whist[1].op = "toggle_main_window" /\ whist[2].op = "minimize_to_bubble"
    /\ exists["main"] /\ ~exists["bubble"] /\ visible["main"]
    /\ whist[2].result = Err("Bubble window not found", <<>>)

\* C5 as stated: expand_from_bubble returns a window-not-found error when
\* either window is missing, and then makes no show or set_focus call.
C5_ExpandNeedsBothWindows ==
    \A i \in 1..Len(whist) :
        (whist[i].op = "expand_from_bubble" /\ ~BothExist)
        => (whist[i].result.msg \in NotFound /\ Mutations(whist[i]) = {})

\* C5, amended: expand_from_bubble returns a window-not-found error exactly
\* when the main window is missing, and then makes no call; the bubble window
\* is not looked up, and with main present the command shows main first.
C5_ExpandNeedsMainOnly ==
    \A i \in 1..Len(whist) :
        whist[i].op = "expand_from_bubble"
        => ( /\ (whist[i].result.msg \in NotFound) <=> ~exists["main"]
             /\ ~exists["main"] =>
                  ( /\ whist[i].result = Err("Main window not found", <<>>)
                    /\ whist[i].calls = <<>>
                    /\ whist[i].post = whist[i].pre )
             /\ exists["main"] =>
                  ( /\ Len(whist[i].calls) >= 1
                    /\ whist[i].calls[1].win = "main"
                    /\ whist[i].calls[1].call = "show"
                    /\ (AllOk(whist[i]) =>
                          whist[i].result.ok /\ whist[i].post["main"]) ) )

C5_Witness ==
    \E i \in 1..Len(whist) :
        /\ whist[i].op = "expand_from_bubble"
        /\ exists["main"] /\ ~exists["bubble"]
        /\ whist[i].result.ok

\* C6: with both windows present and hide and show succeeding, a second
\* minimize_to_bubble leaves the visibility the first one left: main hidden,
\* bubble shown, whatever the visibility before and whether or not
\* set_focus succeeds.
C6_MinimizeIdempotent ==
    \A i \in 1..Len(whist) :
        ( /\ Twice(i, "minimize_to_bubble")
          /\ HideShowOk(whist[i]) /\ HideShowOk(whist[i + 1]) )
        => ( /\ whist[i].post = BubbleOnly
             /\ whist[i + 1].post = whist[i].post
             /\ whist[i].result.ok /\ whist[i + 1].result.ok )

C6_Witness ==
    \E i \in 1..Len(whist) :
        /\ Twice(i, "minimize_to_bubble")
        /\ HideShowOk(whist[i]) /\ HideShowOk(whist[i + 1])
        /\ whist[i].pre = MainOnly
        /\ FocusFailed(whist[i + 1], "bubble")

\* C7: a failed set_focus on the bubble does not fail toggle_main_window or
\* minimize_to_bubble (main is hidden, the bubble shown, the result the
\* bubble one); a failed set_focus on main fails toggle_main_window and
\* expand_from_bubble, after main was shown.  Toggle takes the bubble branch
\* when main is visible and the main branch when it is not.
C7_FocusFailurePolicy ==
    \A i \in 1..Len(whist) :
      LET e == whist[i] IN
        /\ (e.op \in {"toggle_main_window", "minimize_to_bubble"}
              /\ FocusFailed(e, "bubble"))
           => ( /\ e.result = Ok(IF e.op = "toggle_main_window"
                                 THEN "Switched to bubble mode"
                                 ELSE "Minimized to bubble", <<>>)
                /\ e.post = BubbleOnly )
        /\ (e.op \in {"toggle_main_window", "expand_from_bubble"}
              /\ FocusFailed(e, "main"))
           => (~e.result.ok /\ e.result.msg \notin NotFound /\ e.post["main"])
        /\ (e.op = "toggle_main_window" /\ BothExist /\ QueryOk(e) /\ HideShowOk(e))
           => IF e.pre["main"]
              THEN e.result = Ok("Switched to bubble mode", <<>>)
              ELSE (e.result.ok <=> ~FocusFailed(e, "main"))

C7_Witness ==
    /\ Len(whist) = 2
    /\ whist[1].op = "toggle_main_window" /\ FocusFailed(whist[1], "bubble")
    /\ whist[1].pre = MainOnly
    /\ whist[2].op = "toggle_main_window" /\ FocusFailed(whist[2], "main")

(***************************************************************************)
(* Properties of the mouse commands.                                       *)
(***************************************************************************)
\* The button table of the documentation, matched case-insensitively.
SpecButton(tok) ==
    LET low == to_lowercase(tok) IN
    IF low = <<"l","e","f","t">> THEN "Left"
    ELSE IF low = <<"r","i","g","h","t">> THEN "Right"
    ELSE IF low = <<"m","i","d","d","l","e">> THEN "Middle"
    ELSE "none"

InvalidButton(tok) ==
    [ok |-> FALSE, msg |-> "Invalid button: {}. Use 'left', 'right', or 'middle'",
     text |-> tok]

\* C9 as stated: mouse_click with a token that is not left, right or middle
\* returns the invalid-button error and makes no injector call; with one of
\* the three, in any letter case, it makes exactly one click of that button.
C9_ClickResolvesButton ==
    last.op = "mouse_click"
    => IF SpecButton(last.arg) = "none"
       THEN last.result = InvalidButton(last.arg) /\ last.calls = <<>>
       ELSE /\ Len(last.calls) = 1
            /\ last.calls[1].call = "ButtonClick"
            /\ last.calls[1].arg = SpecButton(last.arg)

\* C9, amended: the same once the injector handle has been created;
\* Enigo::new runs before the token is looked at, and when it fails the
\* command returns the platform error, for any token, without an injector
\* call.
C9_ClickResolvesButtonOnceCreated ==
    last.op = "mouse_click"
    => IF ~last.created
       THEN last.result = PlatformErr /\ last.calls = <<>>
       ELSE IF SpecButton(last.arg) = "none"
       THEN last.result = InvalidButton(last.arg) /\ last.calls = <<>>
       ELSE /\ Len(last.calls) = 1
            /\ last.calls[1].call = "ButtonClick"
            /\ last.calls[1].arg = SpecButton(last.arg)
            /\ last.result.ok <=> last.calls[1].ok

C9_Witness ==
    /\ last.op = "mouse_click"
    /\ last.created
    /\ last.arg = <<"p","u","r","p","l","e">>
    /\ last.result = InvalidButton(last.arg)

\* C10: get_mouse_position after a successful mouse_move(x, y) returns
\* <<x, y>>, and a get_mouse_position step changes neither the pointer nor
\* any other state of the injector.
C10_PositionReadBack ==
    /\ [](( /\ last.op = "get_mouse_position"
            /\ last.result.ok
            /\ last.moved # <<>> )
          => (last.result.text = last.moved /\ pointer = last.moved))
    /\ [][ last'.op = "get_mouse_position"
           => ( /\ pointer' = pointer
                /\ ilog' = ilog
                /\ down' = down
                /\ eheld' = eheld
                /\ last'.pre = pointer
                /\ last'.moved = last.moved ) ]_vars

C10_Witness ==
    /\ last.op = "get_mouse_position"
    /\ last.result = Ok("", <<100, 200>>)
    /\ last.moved = <<100, 200>>

(***************************************************************************)
(* Properties of key resolution.                                           *)
(***************************************************************************)
\* t is the word w with some of its letters in upper case.
IsCasingOf(t, w) ==
    /\ Len(t) = Len(w)
    /\ \A i \in 1..Len(w) : t[i] = w[i] \/ t[i] = UpperOf(w[i])

ModifierAliases == {a \in KeyAliases : a[2] \in Modifiers}

\* C11: in every letter-casing, every alias of a key makes keyboard_press
\* click the same key symbol, and a modifier alias resolves to that same
\* symbol in the press loop and in the release loop of keyboard_shortcut.
C11_AliasesCaseInsensitive ==
    /\ (last.op = "keyboard_press" /\ last.created)
       => \A a \in KeyAliases :
            IsCasingOf(last.arg, a[1])
            => /\ Len(last.calls) = 1
               /\ last.calls[1].call = "KeyClick"
               /\ last.calls[1].arg = a[2]
               /\ a[2] \in Modifiers
                  => /\ press_match(to_lowercase(last.arg)) = a[2]
                     /\ release_match(to_lowercase(last.arg)) = a[2]
    /\ ( /\ pc[1] = "done"
         /\ Len(keys[1]) = 1
         /\ result[1] # PlatformErr
         /\ AllCallsOk(1) )
       => \A a \in ModifierAliases :
            IsCasingOf(keys[1][1], a[1])
            => EventsOf(ilog, 1) = <<Ev("Press", a[2]), Ev("Release", a[2])>>

C11_Witness ==
    /\ pc[1] = "done"
    /\ keys[1] = << <<"C","O","M","m","a","n","d">> >>
    /\ EventsOf(ilog, 1) = <<Ev("Press", "Meta"), Ev("Release", "Meta")>>
    /\ result[1].ok

UnsupportedKey(tok) ==
    [ok |-> FALSE,
     msg |-> "Unsupported key: {}. Use special key names like 'enter', 'tab', 'escape', etc.",
     text |-> tok]
UnsupportedInShortcut(tok) ==
    [ok |-> FALSE, msg |-> "Unsupported key in shortcut: {}", text |-> tok]

IsKeyAlias(tok) == \E a \in KeyAliases : IsCasingOf(tok, a[1])
IsModifierAlias(tok) == \E a \in ModifierAliases : IsCasingOf(tok, a[1])
IsButtonName(tok) ==
    \E w \in {<<"l","e","f","t">>, <<"r","i","g","h","t">>, <<"m","i","d","d","l","e">>} :
        IsCasingOf(tok, w)

\* C12: when the resolution of a token fails, in keyboard_press, mouse_click
\* or keyboard_shortcut, the command returns the error carrying the token
\* exactly as it was given, and no injector call is made for that token.
C12_ErrorEchoesToken ==
    /\ (last.op = "keyboard_press" /\ last.created /\ ~IsKeyAlias(last.arg))
       => (last.result = UnsupportedKey(last.arg) /\ last.calls = <<>>)
    /\ (last.op = "mouse_click" /\ last.created /\ ~IsButtonName(last.arg))
       => (last.result = InvalidButton(last.arg) /\ last.calls = <<>>)
    /\ (pc[1] = "done" /\ ~result[1].ok /\ result[1] # PlatformErr)
       => ( /\ idx[1] \in 1..Len(keys[1])
            /\ result[1] = UnsupportedInShortcut(keys[1][idx[1]])
            /\ ~IsModifierAlias(keys[1][idx[1]])
            /\ Len(ilog) = idx[1] - 1 )
    /\ ( /\ pc[1] = "done" /\ result[1] # PlatformErr /\ AllCallsOk(1)
         /\ \E i \in 1..Len(keys[1]) : ~SpecResolvable(keys[1][i]) )
       => ( /\ ~result[1].ok
            /\ \A i \in 1..(idx[1] - 1) : SpecResolvable(keys[1][i]) )

C12_Witness ==
    /\ pc[1] = "done"
    /\ keys[1] = <<S_ctrl, <<"E","n","t","e","r">> >>
    /\ result[1] = UnsupportedInShortcut(<<"E","n","t","e","r">>)
    /\ EventsOf(ilog, 1) = <<Ev("Press", "Control")>>

(***************************************************************************)
(* Further properties of the window commands.                              *)
(***************************************************************************)
HasCall(calls, w, c) == \E j \in 1..Len(calls) : calls[j].win = w /\ calls[j].call = c

\* C13: expand_from_bubble, whether it returns Ok or Err, leaves the bubble
\* window as visible as it was and makes no call on it; when it returns Ok
\* the main window is visible.
C13_ExpandKeepsBubble ==
    \A i \in 1..Len(whist) :
        whist[i].op = "expand_from_bubble"
        => /\ whist[i].post["bubble"] = whist[i].pre["bubble"]
           /\ \A j \in 1..Len(whist[i].calls) : whist[i].calls[j].win = "main"
           /\ whist[i].result.ok => whist[i].post["main"]

C13_Witness ==
    /\ Len(whist) = 1
    /\ whist[1].op = "expand_from_bubble"
    /\ whist[1].pre = BubbleOnly
    /\ whist[1].result = Ok("Expanded to main window", <<>>)
    /\ visible = BothShown

\* C17: with both windows present, after window commands that all returned
\* Ok at least one of main and bubble is visible; both are hidden after a
\* command only if that command returned an error.
C17_SomeWindowVisible ==
    /\ \A i \in 1..Len(whist) :
          (BothExist /\ whist[i].result.ok)
          => (whist[i].post["main"] \/ whist[i].post["bubble"])
    /\ (BothExist /\ Len(whist) > 0 /\ ~visible["main"] /\ ~visible["bubble"])
       => ~whist[Len(whist)].result.ok

C17_Witness ==
    /\ BothExist
    /\ Len(whist) = 2
    /\ ~whist[1].pre["main"] /\ ~whist[1].pre["bubble"]
    /\ whist[1].op = "expand_from_bubble" /\ whist[1].result.ok
    /\ whist[2].op = "toggle_main_window" /\ whist[2].result.ok
    /\ visible = BubbleOnly

\* C18: toggle_main_window first asks the main window whether it is visible
\* and takes the hide-main branch exactly when that query succeeds and
\* reports visible; a failed query takes the show-main branch, in which main
\* is never hidden; the bubble's visibility is not asked and does not matter.
C18_ToggleBranchFromMainQuery ==
    \A i \in 1..Len(whist) :
        (whist[i].op = "toggle_main_window" /\ BothExist)
        => LET c == whist[i].calls
               reported == c[1].ok /\ whist[i].pre["main"]
           IN  /\ Len(c) >= 2
               /\ c[1].win = "main" /\ c[1].call = "is_visible"
               /\ ~HasCall(c, "bubble", "is_visible")
               /\ HasCall(c, "main", "hide") <=> reported
               /\ HasCall(c, "main", "show") <=> ~reported
               /\ ~c[1].ok
                  => /\ whist[i].post["main"] = (whist[i].pre["main"] \/ c[2].ok)
                     /\ whist[i].post["bubble"] = whist[i].pre["bubble"]
                     /\ whist[i].result.ok
                        => whist[i].result = Ok("Switched to main window", <<>>)
                     /\ (c[2].ok /\ Len(c) = 3 /\ c[3].ok)
                        => whist[i].result = Ok("Switched to main window", <<>>)

C18_Witness ==
    /\ BothExist
    /\ Len(whist) = 1
    /\ whist[1].op = "toggle_main_window"
    /\ whist[1].pre = BothShown
    /\ ~whist[1].calls[1].ok
    /\ HasCall(whist[1].calls, "main", "show")
    /\ whist[1].result = Ok("Switched to main window", <<>>)
    /\ visible = BothShown

(***************************************************************************)
(* Properties of the single-character classification.                      *)
(***************************************************************************)
\* The tokens before position i were all resolved by the press loop.
ReachedByPressLoop(i) ==
    /\ pc[1] = "done" /\ result[1] # PlatformErr /\ AllCallsOk(1)
    /\ i \in 1..Len(keys[1])
    /\ \A j \in 1..(i - 1) : SpecResolvable(keys[1][j])

\* C14: a token of exactly one character that is no alias is rejected by
\* keyboard_press with the unsupported-key error and accepted by
\* keyboard_shortcut, which injects it as text; a token of keyboard_shortcut
\* that is neither a modifier alias nor one character (enter, tab, ...) is
\* rejected as unsupported.
C14_SingleCharOnlyInShortcut ==
    /\ (last.op = "keyboard_press" /\ last.created /\ char_count(last.arg) = 1)
       => (last.result = UnsupportedKey(last.arg) /\ last.calls = <<>>)
    /\ \A i \in 1..Len(keys[1]) :
          ReachedByPressLoop(i)
          => LET tok == keys[1][i] IN
             /\ (char_count(tok) = 1)
                => /\ Len(ilog) >= i
                   /\ ilog[i].call = "Text"
                   /\ result[1] # UnsupportedInShortcut(tok)
             /\ (~IsModifierAlias(tok) /\ char_count(tok) # 1)
                => /\ result[1] = UnsupportedInShortcut(tok)
                   /\ Len(ilog) = i - 1
             /\ IsModifierAlias(tok)
                => /\ Len(ilog) >= i
                   /\ ilog[i].call = "Press" /\ ilog[i].arg \in Modifiers

\* C19: for every token of one character that the press loop of
\* keyboard_shortcut reaches, the call recorded for it is Text of the
\* lower-cased token.
C19_TextIsLowercased ==
    \A i \in 1..Len(keys[1]) :
        (ReachedByPressLoop(i) /\ char_count(keys[1][i]) = 1)
        => /\ Len(ilog) >= i
           /\ ilog[i].call = "Text"
           /\ ilog[i].arg = to_lowercase(keys[1][i])

(***************************************************************************)
(* Failure and balance of keyboard_shortcut.                               *)
(***************************************************************************)
\* C15: a failed injector call of keyboard_shortcut is the last call of the
\* command, which has returned the platform error: the call is not issued
\* again and nothing follows it; after a failed Press or Text the log holds
\* no Release, after a failed Release the modifiers pressed before it have
\* no Release.
C15_FailureEndsCommand ==
    \A i \in 1..Len(ilog) :
        ~ilog[i].ok
        => /\ i = Len(ilog)
           /\ pc[1] = "done"
           /\ result[1] = [ok |-> FALSE, msg |-> "platform error", text |-> <<>>]
           /\ \A j \in 1..(i - 1) : ilog[j].ok
           /\ ilog[i].call \in {"Press", "Text"}
              => \A j \in 1..Len(ilog) : ilog[j].call # "Release"
           /\ ilog[i].call = "Release"
              => /\ idx[1] \in 1..Len(keys[1])
                 /\ SpecModifier(keys[1][idx[1]]) = ilog[i].arg
                 /\ i = Len(keys[1]) + Len(ReleasePhase(SubSeq(keys[1], idx[1], Len(keys[1]))))

C15_Witness ==
    /\ pc[1] = "done"
    /\ keys[1] = <<S_ctrl, S_shift>>
    /\ Len(ilog) = 3
    /\ ilog[3] = Call(1, "Release", "Shift", FALSE)
    /\ result[1] = [ok |-> FALSE, msg |-> "platform error", text |-> <<>>]
    /\ "Control" \in down

\* Press and Release events are paired like brackets: every Release closes
\* the most recent open Press, of the same symbol, and none stays open.
RECURSIVE Nested(_, _)
Nested(evs, open) ==
    IF evs = <<>> THEN open = <<>>
    ELSE LET e == Head(evs) IN
         CASE e[1] = "Press" -> Nested(Tail(evs), <<e[2]>> \o open)
           [] e[1] = "Release" -> /\ open # <<>>
                                  /\ Head(open) = e[2]
                                  /\ Nested(Tail(evs), Tail(open))
           [] OTHER -> Nested(Tail(evs), open)

CountOf(evs, call, m) == Cardinality({i \in 1..Len(evs) : evs[i] = Ev(call, m)})

\* C16: when keyboard_shortcut returns Ok, its calls hold as many Release as
\* Press of every modifier, the pairs are properly nested, and no modifier
\* is down, also when a modifier occurs twice in the list.
C16_BalancedOnSuccess ==
    (pc[1] = "done" /\ result[1].ok)
    => /\ Nested(EventsOf(ilog, 1), <<>>)
       /\ \A m \in Modifiers :
             CountOf(EventsOf(ilog, 1), "Press", m) = CountOf(EventsOf(ilog, 1), "Release", m)
       /\ down = {}

C16_Witness ==
    /\ pc[1] = "done" /\ result[1].ok
    /\ keys[1] = <<S_ctrl, <<"C","O","N","T","R","O","L">>, <<"s">> >>
    /\ EventsOf(ilog, 1) = <<Ev("Press", "Control"), Ev("Press", "Control"), Ev("Text", <<"s">>),
                             Ev("Release", "Control"), Ev("Release", "Control")>>

====
